---- MODULE Spec2Model ----
(***************************************************************************)
(* Badminton Matcher (src/src/App.tsx): the roster, the court and format   *)
(* settings, the pairing routine generateMatches, the round history and    *)
(* the localStorage persistence of the one App component.                  *)
(*                                                                         *)
(* JavaScript objects are shared by reference.  A team of a match holds    *)
(* references to Player objects.  The only code that writes to a Player    *)
(* object after its creation is the gamesPlayed++ of generateMatches, and  *)
(* it reaches only objects that are in the roster.  A team cell is         *)
(* therefore modelled as                                                   *)
(*    [ref |-> id]   the very object the roster holds for player id, or    *)
(*    [obj |-> rec]  an object the roster no longer holds (replaced by the *)
(*                   copy toggleLeave makes, or filtered out by            *)
(*                   removePlayer); nothing can write to it any more, so   *)
(*                   it is kept by value.                                  *)
(***************************************************************************)
EXTENDS Integers, Sequences, FiniteSets

VARIABLES
    players,         \* useState<Player[]>: the roster, a sequence of Player objects
    courts,          \* useState(initialState.courts)
    playingType,     \* useState<PlayingType>
    currentMatches,  \* useState<Match[]>
    history,         \* useState<MatchHistory[]>, most recent first
    roundNumber,     \* useState(initialState.roundNumber)
    advancedMode,    \* useState(initialState.advancedMode)
    store,           \* localStorage under the key 'badmintonState'
    initialState,    \* const initialState = loadState()
    clock,           \* Date.now() as read by addPlayer: the number of ids issued so far
    alertShown,      \* the handler that ran last called alert()
    steps,           \* the number of handler calls so far
    pc               \* "boot": loadState not yet run; "loaded": it has run;
                     \* "ready": the component is mounted and handles events

vars == <<players, courts, playingType, currentMatches, history, roundNumber,
          advancedMode, store, initialState, clock, alertShown, steps, pc>>

(***************************************************************************)
(* Bounds of the model.                                                    *)
(***************************************************************************)
\* the session is followed for MaxSteps calls of its handlers
MaxSteps == 8

SkillLevel == {"beginner", "intermediate", "pro-player"}
PlayingType == {"single", "double"}

\* What the user types into the name field and into the courts field,
\* as sequences of characters.
NameInputs == {<<" ">>, <<" ", "a", " ">>}
CourtInputs == {<<>>, <<"0">>, <<"2">>, <<"-", "1">>}
Times == {1000}

Min(a, b) == IF a < b THEN a ELSE b
Max(a, b) == IF a > b THEN a ELSE b

(***************************************************************************)
(* JavaScript library functions, as far as the code uses them.             *)
(***************************************************************************)
\* String.prototype.trim
RECURSIVE trimStart(_)
trimStart(s) ==
    IF s # <<>> /\ Head(s) = " " THEN trimStart(Tail(s)) ELSE s

RECURSIVE trimEnd(_)
trimEnd(s) ==
    IF s # <<>> /\ s[Len(s)] = " " THEN trimEnd(SubSeq(s, 1, Len(s) - 1)) ELSE s

trim(s) == trimEnd(trimStart(s))

Digits == {"0", "1", "2", "3", "4", "5", "6", "7", "8", "9"}

DigitValue(c) ==
    CASE c = "0" -> 0 [] c = "1" -> 1 [] c = "2" -> 2 [] c = "3" -> 3
      [] c = "4" -> 4 [] c = "5" -> 5 [] c = "6" -> 6 [] c = "7" -> 7
      [] c = "8" -> 8 [] c = "9" -> 9

\* the value of the longest prefix of digits of s, after the digits read so far
RECURSIVE parseDigits(_, _)
parseDigits(s, acc) ==
    IF s # <<>> /\ Head(s) \in Digits
    THEN parseDigits(Tail(s), 10 * acc + DigitValue(Head(s)))
    ELSE acc

\* parseInt(text): [nan |-> TRUE] or [num |-> n]
parseInt(text) ==
    LET s == trimStart(text)
        neg == s # <<>> /\ Head(s) = "-"
        body == IF s # <<>> /\ Head(s) \in {"-", "+"} THEN Tail(s) ELSE s
    IN  IF body = <<>> \/ Head(body) \notin Digits
        THEN [nan |-> TRUE]
        ELSE [num |-> IF neg THEN 0 - parseDigits(body, 0) ELSE parseDigits(body, 0)]

\* Array.prototype.slice(start, end), positions counted from 0
slice(s, start, end) ==
    LET len == Len(s)
        from == IF start < 0 THEN Max(len + start, 0) ELSE Min(start, len)
        to == IF end < 0 THEN Max(len + end, 0) ELSE Min(end, len)
    IN  SubSeq(s, from + 1, to)

(***************************************************************************)
(* generateMatches: the comparator and the (stable) Array.prototype.sort.  *)
(***************************************************************************)
skillOrder(skill) ==
    CASE skill = "beginner" -> 0
      [] skill = "intermediate" -> 1
      [] skill = "pro-player" -> 2

\* compare without the tie-break by skill
compareGamesOnly(a, b) == a.gamesPlayed - b.gamesPlayed

compare(a, b) ==
    IF a.gamesPlayed # b.gamesPlayed
    THEN a.gamesPlayed - b.gamesPlayed
    ELSE skillOrder(a.skill) - skillOrder(b.skill)

\* x goes behind every element that does not compare greater than x
RECURSIVE insertSorted(_, _)
insertSorted(x, s) ==
    IF s = <<>> THEN <<x>>
    ELSE IF compare(Head(s), x) <= 0
         THEN <<Head(s)>> \o insertSorted(x, Tail(s))
         ELSE <<x>> \o s

RECURSIVE sort(_)
sort(s) ==
    IF s = <<>> THEN <<>>
    ELSE insertSorted(s[Len(s)], sort(SubSeq(s, 1, Len(s) - 1)))

playersPerMatchOf(type) == IF type = "single" THEN 2 ELSE 4

\* activePlayersOf without the filter
activePlayersUnfiltered(ps) == ps

activePlayersOf(ps) == SelectSeq(ps, LAMBDA p : ~p.isOnLeave)

\* a reference to the roster object p
Ref(p) == [ref |-> p.id]

Refs(ps) == [k \in 1..Len(ps) |-> Ref(ps[k])]

\* the for loop of generateMatches from court index i on: the matches pushed
RECURSIVE matchLoop(_, _, _, _, _, _, _)
matchLoop(i, nCourts, availablePlayers, type, round, now, matches) ==
    IF ~(i < nCourts) THEN matches
    ELSE
        LET playersPerMatch == playersPerMatchOf(type)
            matchPlayers ==
                slice(availablePlayers, i * playersPerMatch, (i + 1) * playersPerMatch)
            match ==
                [id |-> <<now, i>>,
                 court |-> i + 1,
                 team1 |-> IF type = "single"
                           THEN Refs(SubSeq(matchPlayers, 1, 1))
                           ELSE Refs(SubSeq(matchPlayers, 1, 2)),
                 team2 |-> IF type = "single"
                           THEN Refs(SubSeq(matchPlayers, 2, 2))
                           ELSE Refs(SubSeq(matchPlayers, 3, 4)),
                 round |-> round]
        IN  IF Len(matchPlayers) = playersPerMatch
            THEN matchLoop(i + 1, nCourts, availablePlayers, type, round, now,
                           Append(matches, match))
            ELSE matchLoop(i + 1, nCourts, availablePlayers, type, round, now, matches)

\* the matches generateMatches builds from the roster ps
matchesOf(ps, nCourts, type, round, now) ==
    LET sortedPlayers == sort(activePlayersOf(ps))
        totalPlayersNeeded == nCourts * playersPerMatchOf(type)
        availablePlayers == slice(sortedPlayers, 0, totalPlayersNeeded)
    IN  matchLoop(0, nCourts, availablePlayers, type, round, now, <<>>)

\* the cells of a match, team1 first
cellsOf(match) == match.team1 \o match.team2

\* timesPlaced with the increment reaching team1 only
RECURSIVE timesPlacedTeam1(_, _)
timesPlacedTeam1(id, matches) ==
    IF matches = <<>> THEN 0
    ELSE Cardinality({k \in 1..Len(Head(matches).team1) :
                         Head(matches).team1[k] = [ref |-> id]})
         + timesPlacedTeam1(id, Tail(matches))

\* how many times matchPlayers.forEach(player => player.gamesPlayed++) reached id
RECURSIVE timesPlaced(_, _)
timesPlaced(id, matches) ==
    IF matches = <<>> THEN 0
    ELSE Cardinality({k \in 1..Len(cellsOf(Head(matches))) :
                         cellsOf(Head(matches))[k] = [ref |-> id]})
         + timesPlaced(id, Tail(matches))

(***************************************************************************)
(* Object identity: what the cells of the matches see.                     *)
(***************************************************************************)
\* the roster object of player id
rosterObject(ps, id) == ps[CHOOSE k \in 1..Len(ps) : ps[k].id = id]

\* the Player record a cell shows when it is read
deref(ps, cell) ==
    IF "ref" \in DOMAIN cell THEN rosterObject(ps, cell.ref) ELSE cell.obj

\* the roster stops holding the object of player id: the cells keep the object
detachCell(ps, id, cell) ==
    IF cell = [ref |-> id] THEN [obj |-> rosterObject(ps, id)] ELSE cell

detachMatch(ps, id, m) ==
    [m EXCEPT !.team1 = [k \in 1..Len(m.team1) |-> detachCell(ps, id, m.team1[k])],
              !.team2 = [k \in 1..Len(m.team2) |-> detachCell(ps, id, m.team2[k])]]

detachMatches(ps, id, ms) == [k \in 1..Len(ms) |-> detachMatch(ps, id, ms[k])]

detachHistory(ps, id, h) ==
    [k \in 1..Len(h) |-> [h[k] EXCEPT !.matches = detachMatches(ps, id, h[k].matches)]]

\* what a match, a list of matches and the history show when they are read
viewMatch(ps, m) ==
    [m EXCEPT !.team1 = [k \in 1..Len(m.team1) |-> deref(ps, m.team1[k])],
              !.team2 = [k \in 1..Len(m.team2) |-> deref(ps, m.team2[k])]]

viewMatches(ps, ms) == [k \in 1..Len(ms) |-> viewMatch(ps, ms[k])]

viewHistory(ps, h) ==
    [k \in 1..Len(h) |-> [h[k] EXCEPT !.matches = viewMatches(ps, h[k].matches)]]

(***************************************************************************)
(* JavaScript values, for what is written to and read from localStorage.   *)
(* A value is a record with one field that names its type:                 *)
(*   [undefined |-> TRUE]  [null |-> TRUE]  [num |-> n]  [bool |-> b]      *)
(*   [nan |-> TRUE]  the number NaN                                        *)
(*   [str |-> s]     a string                                              *)
(*   [text |-> cs]   a string given by its characters (a player name)      *)
(*   [numstr |-> n]  the decimal string of n (Date.now().toString())       *)
(*   [matchid |-> <<now, i>>]  the string `${now}-${i}`                    *)
(*   [iso |-> t]     the ISO string of the time t                          *)
(*   [date |-> t]    a Date object of time t; [invalidDate |-> TRUE]       *)
(*   [list |-> <<v1, ..>>]  an array;  [obj |-> f]  an object, f a         *)
(*                   function from its property names to their values      *)
(* The store is [absent |-> TRUE] (no such key), [empty |-> TRUE] (the     *)
(* empty string), [garbage |-> TRUE] (a text JSON.parse rejects),          *)
(* [json |-> v] (a text that JSON.parse reads as the value v) or           *)
(* [stringified |-> s] (the text JSON.stringify made of the session s,     *)
(* kept as the session it was made of: JSONparse tells what it reads as).  *)
(***************************************************************************)
Undefined == [undefined |-> TRUE]
Null == [null |-> TRUE]

\* ToBoolean, as || applies it
truthy(v) ==
    IF "undefined" \in DOMAIN v \/ "null" \in DOMAIN v \/ "nan" \in DOMAIN v THEN FALSE
    ELSE IF "num" \in DOMAIN v THEN v.num # 0
    ELSE IF "bool" \in DOMAIN v THEN v.bool
    ELSE IF "str" \in DOMAIN v THEN v.str # ""
    ELSE IF "text" \in DOMAIN v THEN v.text # <<>>
    ELSE TRUE

\* a || b
or(a, b) == IF truthy(a) THEN a ELSE b

\* value.name: the property of an object; undefined on a value without it
property(v, name) ==
    IF "obj" \in DOMAIN v /\ name \in DOMAIN v.obj THEN v.obj[name] ELSE Undefined

\* new Date(v)
newDate(v) ==
    IF "iso" \in DOMAIN v THEN [date |-> v.iso]
    ELSE IF "num" \in DOMAIN v THEN [date |-> v.num]
    ELSE IF "null" \in DOMAIN v THEN [date |-> 0]
    ELSE IF "date" \in DOMAIN v THEN v
    ELSE [invalidDate |-> TRUE]

\* JSON.parse(JSON.stringify(v)): what the text made of the value v reads as
RECURSIVE roundTrip(_)
roundTrip(v) ==
    IF "date" \in DOMAIN v THEN [iso |-> v.date]
    ELSE IF "invalidDate" \in DOMAIN v \/ "nan" \in DOMAIN v THEN Null
    ELSE IF "list" \in DOMAIN v
         THEN [list |-> [k \in 1..Len(v.list) |->
                            IF v.list[k] = Undefined THEN Null ELSE roundTrip(v.list[k])]]
    ELSE IF "obj" \in DOMAIN v
         THEN [obj |-> [name \in {n \in DOMAIN v.obj : v.obj[n] # Undefined} |->
                           roundTrip(v.obj[name])]]
    ELSE v

\* a session as JavaScript values
playerValue(p) ==
    [obj |-> [id |-> [numstr |-> p.id],
              name |-> [text |-> p.name],
              skill |-> [str |-> p.skill],
              gamesPlayed |-> [num |-> p.gamesPlayed],
              isOnLeave |-> [bool |-> p.isOnLeave]]]

playerValues(ps) == [list |-> [k \in 1..Len(ps) |-> playerValue(ps[k])]]

matchValue(m) ==
    [obj |-> [id |-> [matchid |-> m.id],
              court |-> [num |-> m.court],
              team1 |-> playerValues(m.team1),
              team2 |-> playerValues(m.team2),
              round |-> [num |-> m.round]]]

entryValue(e) ==
    [obj |-> [round |-> [num |-> e.round],
              matches |-> [list |-> [k \in 1..Len(e.matches) |-> matchValue(e.matches[k])]],
              timestamp |-> [date |-> e.timestamp]]]

sessionValue(s) ==
    [players |-> playerValues(s.players),
     history |-> [list |-> [k \in 1..Len(s.history) |-> entryValue(s.history[k])]],
     roundNumber |-> [num |-> s.roundNumber],
     courts |-> [num |-> s.courts],
     playingType |-> [str |-> s.playingType],
     advancedMode |-> [bool |-> s.advancedMode]]

\* JSON.parse of a stored text that parses
JSONparse(st) ==
    IF "stringified" \in DOMAIN st
    THEN roundTrip([obj |-> sessionValue(st.stringified)])
    ELSE st.json

\* the state a session starts from when nothing usable is stored
defaultState ==
    [players |-> [list |-> <<>>],
     history |-> [list |-> <<>>],
     roundNumber |-> [num |-> 1],
     courts |-> [num |-> 1],
     playingType |-> [str |-> "double"],
     advancedMode |-> [bool |-> FALSE]]

\* h => ({...h, timestamp: new Date(h.timestamp)}) on an entry that is not null:
\* an object keeps its properties, a number or a boolean spreads to none
reviveEntry(h) ==
    LET spread == IF "obj" \in DOMAIN h THEN h.obj ELSE <<>>
        names == DOMAIN spread \cup {"timestamp"}
    IN  [obj |-> [name \in names |->
                     IF name = "timestamp"
                     THEN newDate(property(h, "timestamp"))
                     ELSE spread[name]]]

\* loadState(): the SavedState read from the store st
loadState(st) ==
    IF "json" \notin DOMAIN st /\ "stringified" \notin DOMAIN st THEN defaultState
    ELSE
        LET parsed == JSONparse(st)
            h == property(parsed, "history")
            mapThrows ==
                \/ ~("undefined" \in DOMAIN h \/ "null" \in DOMAIN h \/ "list" \in DOMAIN h)
                \/ "list" \in DOMAIN h /\ \E k \in 1..Len(h.list) : h.list[k] = Null
            mapped ==
                IF "list" \in DOMAIN h
                THEN [list |-> [k \in 1..Len(h.list) |-> reviveEntry(h.list[k])]]
                ELSE Undefined
        IN  IF parsed = Null \/ mapThrows THEN defaultState
            ELSE [players |-> or(property(parsed, "players"), [list |-> <<>>]),
                  history |-> or(mapped, [list |-> <<>>]),
                  roundNumber |-> or(property(parsed, "roundNumber"), [num |-> 1]),
                  courts |-> or(property(parsed, "courts"), [num |-> 1]),
                  playingType |-> or(property(parsed, "playingType"), [str |-> "double"]),
                  advancedMode |-> or(property(parsed, "advancedMode"), [bool |-> FALSE])]

\* the six state variables the effect saves, as the handlers' code reads them
session ==
    [players |-> players,
     history |-> viewHistory(players, history),
     roundNumber |-> roundNumber,
     courts |-> courts,
     playingType |-> playingType,
     advancedMode |-> advancedMode]

\* the dependency list without courts
effectDepsWithoutCourts ==
    {"players", "history", "roundNumber", "playingType", "advancedMode"}

\* the dependency list of the saving effect
effectDeps ==
    {"players", "history", "roundNumber", "courts", "playingType", "advancedMode"}

\* The saving effect after a handler: `changed` are the state variables the
\* handler gave a new value (an array counts as new whenever a setter got one),
\* `stored` is what the handler left in the store, `s` the new session.
saveEffect(changed, stored, s) ==
    IF changed \cap effectDeps # {}
    THEN [stringified |-> s]
    ELSE stored

(***************************************************************************)
(* The session after construction with nothing stored: loadState has       *)
(* returned the defaults and the saving effect has run once.               *)
(***************************************************************************)
Init ==
    /\ players = <<>>
    /\ courts = 1
    /\ playingType = "double"
    /\ currentMatches = <<>>
    /\ history = <<>>
    /\ roundNumber = 1
    /\ advancedMode = FALSE
    /\ initialState = loadState([absent |-> TRUE])
    /\ store = [stringified |-> session]
    /\ clock = 0
    /\ alertShown = FALSE
    /\ steps = 0
    /\ pc = "ready"

(***************************************************************************)
(* The handlers.  Each one ends with the saving effect.                    *)
(***************************************************************************)
addPlayer(playerName, playerSkill) ==
    /\ pc = "ready"
    /\ steps < MaxSteps
    /\ steps' = steps + 1
    /\ alertShown' = FALSE
    /\ UNCHANGED <<courts, playingType, currentMatches, history, roundNumber,
                   advancedMode, initialState, pc>>
    /\ IF trim(playerName) # <<>>
       THEN LET newPlayer == [id |-> clock + 1,
                              name |-> trim(playerName),
                              skill |-> IF advancedMode THEN playerSkill ELSE "intermediate",
                              gamesPlayed |-> 0,
                              isOnLeave |-> FALSE]
            IN  /\ players' = Append(players, newPlayer)
                /\ clock' = clock + 1
                /\ store' = saveEffect({"players"}, store, session')
       ELSE UNCHANGED <<players, clock, store>>

removePlayer(id) ==
    /\ pc = "ready"
    /\ steps < MaxSteps
    /\ steps' = steps + 1
    /\ alertShown' = FALSE
    /\ players' = SelectSeq(players, LAMBDA p : p.id # id)
    /\ currentMatches' = detachMatches(players, id, currentMatches)
    /\ history' = detachHistory(players, id, history)
    /\ UNCHANGED <<courts, playingType, roundNumber, advancedMode, initialState,
                   clock, pc>>
    /\ store' = saveEffect({"players"}, store, session')

toggleLeave(id) ==
    /\ pc = "ready"
    /\ steps < MaxSteps
    /\ steps' = steps + 1
    /\ alertShown' = FALSE
    /\ players' = [k \in 1..Len(players) |->
                      IF players[k].id = id
                      THEN [players[k] EXCEPT !.isOnLeave = ~players[k].isOnLeave]
                      ELSE players[k]]
    /\ currentMatches' = detachMatches(players, id, currentMatches)
    /\ history' = detachHistory(players, id, history)
    /\ UNCHANGED <<courts, playingType, roundNumber, advancedMode, initialState,
                   clock, pc>>
    /\ store' = saveEffect({"players"}, store, session')

\* onChange of the courts field: setCourts(parseInt(e.target.value) || 1)
setCourts(text) ==
    /\ pc = "ready"
    /\ steps < MaxSteps
    /\ steps' = steps + 1
    /\ alertShown' = FALSE
    /\ courts' = or(parseInt(text), [num |-> 1]).num
    /\ UNCHANGED <<players, playingType, currentMatches, history, roundNumber,
                   advancedMode, initialState, clock, pc>>
    /\ store' = saveEffect(IF courts' # courts THEN {"courts"} ELSE {},
                           store, session')

setPlayingType(type) ==
    /\ pc = "ready"
    /\ steps < MaxSteps
    /\ steps' = steps + 1
    /\ alertShown' = FALSE
    /\ playingType' = type
    /\ UNCHANGED <<players, courts, currentMatches, history, roundNumber,
                   advancedMode, initialState, clock, pc>>
    /\ store' = saveEffect(IF playingType' # playingType THEN {"playingType"} ELSE {},
                           store, session')

\* onClick of the mode button: setAdvancedMode(!advancedMode)
toggleAdvancedMode ==
    /\ pc = "ready"
    /\ steps < MaxSteps
    /\ steps' = steps + 1
    /\ alertShown' = FALSE
    /\ advancedMode' = ~advancedMode
    /\ UNCHANGED <<players, courts, playingType, currentMatches, history,
                   roundNumber, initialState, clock, pc>>
    /\ store' = saveEffect({"advancedMode"}, store, session')

\* `confirmed` is the answer to window.confirm
endDay(confirmed) ==
    /\ pc = "ready"
    /\ steps < MaxSteps
    /\ steps' = steps + 1
    /\ alertShown' = FALSE
    /\ UNCHANGED <<initialState, pc>>
    /\ IF confirmed
       THEN /\ players' = <<>>
            /\ currentMatches' = <<>>
            /\ history' = <<>>
            /\ roundNumber' = 1
            /\ courts' = 1
            /\ playingType' = "double"
            /\ advancedMode' = FALSE
            /\ UNCHANGED clock
            /\ store' = saveEffect({"players", "currentMatches", "history"}
                                     \cup (IF roundNumber # 1 THEN {"roundNumber"} ELSE {})
                                     \cup (IF courts # 1 THEN {"courts"} ELSE {})
                                     \cup (IF playingType # "double"
                                           THEN {"playingType"} ELSE {})
                                     \cup (IF advancedMode THEN {"advancedMode"} ELSE {}),
                                   [absent |-> TRUE], session')
       ELSE UNCHANGED <<players, currentMatches, history, roundNumber, courts,
                        playingType, advancedMode, clock, store>>

\* playersRequired with the number of singles for both formats
playersRequiredAlwaysTwo(type) == 2

\* the least number of active players generateMatches accepts
playersRequired(type) == IF type = "single" THEN 2 ELSE 4

\* withEntry with the entry put behind the older ones
withEntryAppended(historyEntry, h) == h \o <<historyEntry>>

\* setHistory([historyEntry, ...history])
withEntry(historyEntry, h) == <<historyEntry>> \o h

generateMatches(now) ==
    /\ pc = "ready"
    /\ steps < MaxSteps
    /\ steps' = steps + 1
    /\ UNCHANGED <<courts, playingType, advancedMode, initialState, clock, pc>>
    /\ IF Len(activePlayersOf(players)) < playersRequired(playingType)
       THEN /\ alertShown' = TRUE
            /\ UNCHANGED <<players, currentMatches, history, roundNumber, store>>
       ELSE LET matches == matchesOf(players, courts, playingType, roundNumber, now)
                historyEntry == [round |-> roundNumber,
                                 matches |-> matches,
                                 timestamp |-> now]
            IN  /\ alertShown' = FALSE
                /\ currentMatches' = matches
                /\ history' = withEntry(historyEntry, history)
                /\ players' = [k \in 1..Len(players) |->
                                  [players[k] EXCEPT !.gamesPlayed =
                                      @ + timesPlaced(players[k].id, matches)]]
                /\ roundNumber' = roundNumber + 1
                /\ store' = saveEffect({"currentMatches", "history", "players",
                                        "roundNumber"}, store, session')

Next ==
    \/ \E playerName \in NameInputs, playerSkill \in SkillLevel :
           addPlayer(playerName, playerSkill)
    \/ \E k \in 1..Len(players) : removePlayer(players[k].id)
    \/ \E k \in 1..Len(players) : toggleLeave(players[k].id)
    \/ \E text \in CourtInputs : setCourts(text)
    \/ \E type \in PlayingType : setPlayingType(type)
    \/ toggleAdvancedMode
    \/ \E confirmed \in BOOLEAN : endDay(confirmed)
    \/ \E now \in Times : generateMatches(now)

Spec == Init /\ [][Next]_vars

(***************************************************************************)
(* loadState on what the store may hold when the page is opened.           *)
(***************************************************************************)
\* an object with the properties of r that are not undefined
object(r) == [obj |-> [name \in {n \in DOMAIN r : r[n] # Undefined} |-> r[name]]]

storedPlayer ==
    playerValue([id |-> 1, name |-> <<"a">>, skill |-> "beginner",
                 gamesPlayed |-> 1, isOnLeave |-> FALSE])

storedEntry ==
    object([round |-> [num |-> 1],
            matches |-> [list |-> <<>>],
            timestamp |-> [iso |-> 1000]])

StoredPlayers ==
    {Undefined, [list |-> <<>>], [list |-> <<storedPlayer>>], [str |-> "x"], [num |-> 0]}
StoredHistory ==
    {Undefined, Null, [list |-> <<>>], [list |-> <<storedEntry>>], [list |-> <<Null>>],
     [num |-> 5]}
StoredRoundNumber ==
    {Undefined, [num |-> 1], [num |-> 3], [num |-> 0], [num |-> 0 - 2], [str |-> "x"]}
StoredCourts ==
    {Undefined, [num |-> 2], [num |-> 0], [num |-> 0 - 1], [str |-> "abc"]}
StoredPlayingType ==
    {Undefined, [str |-> "single"], [str |-> "double"], [str |-> "triple"], [num |-> 5]}
StoredAdvancedMode ==
    {Undefined, [bool |-> TRUE], [bool |-> FALSE], [str |-> "yes"]}

StoredValues ==
    {[absent |-> TRUE], [empty |-> TRUE], [garbage |-> TRUE],
     [json |-> Null], [json |-> [num |-> 5]], [json |-> [list |-> <<>>]]}
    \cup
    {[json |-> object([players |-> p, history |-> h, roundNumber |-> r,
                       courts |-> c, playingType |-> t, advancedMode |-> a])] :
        p \in StoredPlayers, h \in StoredHistory, r \in StoredRoundNumber,
        c \in StoredCourts, t \in StoredPlayingType, a \in StoredAdvancedMode}

InitLoad ==
    /\ pc = "boot"
    /\ store \in StoredValues
    /\ initialState = Undefined
    /\ players = <<>>
    /\ courts = 1
    /\ playingType = "double"
    /\ currentMatches = <<>>
    /\ history = <<>>
    /\ roundNumber = 1
    /\ advancedMode = FALSE
    /\ clock = 0
    /\ alertShown = FALSE
    /\ steps = 0

\* const initialState = loadState()
load ==
    /\ pc = "boot"
    /\ initialState' = loadState(store)
    /\ pc' = "loaded"
    /\ UNCHANGED <<players, courts, playingType, currentMatches, history,
                   roundNumber, advancedMode, store, clock, alertShown, steps>>

NextLoad == load

SpecLoad == InitLoad /\ [][NextLoad]_vars

(***************************************************************************)
(* The properties.  A step of a successful generateMatches is the step     *)
(* that raises the round counter by one (C4_RoundsAndHistory shows that no *)
(* other step does).                                                       *)
(***************************************************************************)
generated == roundNumber' = roundNumber + 1

\* a confirmed endDay
wasReset ==
    /\ players' = <<>> /\ currentMatches' = <<>> /\ history' = <<>>
    /\ roundNumber' = 1 /\ courts' = 1 /\ playingType' = "double"
    /\ advancedMode' = FALSE

\* the cells of a list of matches, court by court, team1 before team2
RECURSIVE allCells(_)
allCells(ms) == IF ms = <<>> THEN <<>> ELSE cellsOf(Head(ms)) \o allCells(Tail(ms))

activeIndexes(ps) == {k \in 1..Len(ps) : ~ps[k].isOnLeave}

\* the current matches are those of the latest round and no roster object in
\* them has been replaced or removed since
freshRound ==
    /\ history # <<>>
    /\ history[1].matches = currentMatches
    /\ \A a \in 1..Len(allCells(currentMatches)) :
           "ref" \in DOMAIN allCells(currentMatches)[a]

\* C1: a successful generateMatches with N active players, K players per
\* match and C >= 1 courts makes min(C, N div K) matches on the courts
\* 1..count; each holds K players, no player is in two cells of the round,
\* every placed player is a roster player who is not on leave, and the call
\* succeeds only with N >= K.
C1_MatchCount ==
    [][(generated /\ courts >= 1) =>
          LET N == Cardinality(activeIndexes(players))
              K == IF playingType = "single" THEN 2 ELSE 4
              cells == allCells(currentMatches')
          IN  /\ N >= K
              /\ Len(currentMatches') = Min(courts, N \div K)
              /\ \A i \in 1..Len(currentMatches') :
                     /\ currentMatches'[i].court = i
                     /\ Len(cellsOf(currentMatches'[i])) = K
              /\ \A a \in 1..Len(cells) :
                     \E k \in activeIndexes(players) : cells[a] = [ref |-> players[k].id]
              /\ \A a, b \in 1..Len(cells) : a # b => cells[a] # cells[b]
      ]_vars

\* two courts and two active players in singles gave one match, and the
\* player on leave is in the roster and has not played
C1_Witness ==
    /\ freshRound
    /\ courts = 2 /\ playingType = "single"
    /\ Len(currentMatches) = 1
    /\ Cardinality(activeIndexes(players)) = 2
    /\ \E k \in 1..Len(players) : players[k].isOnLeave /\ players[k].gamesPlayed = 0

\* C2: a successful generateMatches adds 1 to gamesPlayed of every player it
\* placed and 0 to every other roster player, and leaves id, name, skill,
\* isOnLeave and the roster order alone.
C2_GamesPlayed ==
    [][generated =>
          LET cells == allCells(currentMatches')
              placed == {players[k].id : k \in {j \in 1..Len(players) :
                            \E a \in 1..Len(cells) : cells[a] = [ref |-> players[j].id]}}
          IN  /\ Len(players') = Len(players)
              /\ \A k \in 1..Len(players) :
                     players'[k] = [players[k] EXCEPT !.gamesPlayed =
                                       @ + (IF players[k].id \in placed THEN 1 ELSE 0)]
      ]_vars

\* after the first round: a placed player, an active player left out and a
\* player on leave
C2_Witness ==
    /\ freshRound
    /\ roundNumber = 2
    /\ \E k \in 1..Len(players) : players[k].gamesPlayed = 1
    /\ \E k \in 1..Len(players) : ~players[k].isOnLeave /\ players[k].gamesPlayed = 0
    /\ \E k \in 1..Len(players) : players[k].isOnLeave /\ players[k].gamesPlayed = 0

\* C3: with fewer active players than the format requires (2 for single, 4
\* for double) no round is generated; the call alerts, and the alerting call
\* leaves roster, matches, history, round counter, courts, format, advanced
\* mode and the store as they were.
C3_Rejected ==
    [][/\ Cardinality(activeIndexes(players)) < (IF playingType = "single" THEN 2 ELSE 4)
             => ~generated
       /\ alertShown' =>
              /\ Cardinality(activeIndexes(players))
                     < (IF playingType = "single" THEN 2 ELSE 4)
              /\ UNCHANGED <<players, currentMatches, history, roundNumber, courts,
                             playingType, advancedMode, store>>
      ]_vars

\* the call was rejected in doubles with three active players after a round
C3_Witness ==
    /\ alertShown
    /\ playingType = "double"
    /\ Cardinality(activeIndexes(players)) = 3
    /\ roundNumber = 2

\* C4: the history has roundNumber - 1 entries, the entry at (1-based)
\* position j is of round roundNumber - j; a step either prepends one entry
\* of the round the counter showed and raises the counter by one, or is a
\* reset, or leaves the counter and what the history shows alone.
C4_RoundsAndHistory ==
    /\ [](pc = "ready" =>
             /\ Len(history) = roundNumber - 1
             /\ \A j \in 1..Len(history) : history[j].round = roundNumber - j)
    /\ [][\/ /\ generated
             /\ history' # <<>>
             /\ history'[1].round = roundNumber
             /\ Tail(history') = history
          \/ wasReset
          \/ /\ roundNumber' = roundNumber
             /\ viewHistory(players', history') = viewHistory(players, history)
         ]_vars

\* two rounds were generated
C4_Witness ==
    /\ roundNumber = 3
    /\ Len(history) = 2
    /\ history[1].round = 2 /\ history[2].round = 1

\* C5: the court count is at least 1 in every state, also in the state
\* loadState returns.
C5_CourtsAtLeastOne ==
    /\ pc = "ready" => courts >= 1
    /\ pc = "loaded" => "num" \in DOMAIN initialState.courts /\ initialState.courts.num >= 1

\* the roster with every player at the neutral tier
neutral(ps) == [k \in 1..Len(ps) |-> [ps[k] EXCEPT !.skill = "intermediate"]]

\* C6: with advanced mode off, generateMatches places the players it would
\* place if every player were of the intermediate tier.
C6_NeutralWhenSimple ==
    [][(generated /\ ~advancedMode) =>
          currentMatches' = matchesOf(neutral(players), courts, playingType,
                                      roundNumber, history'[1].timestamp)
      ]_vars

\* C7: whatever the store holds, loadState returns lists for players and
\* history, integers >= 1 for roundNumber and courts, single or double for
\* playingType and a boolean for advancedMode; a store that is absent, empty
\* or unparseable gives the default session.
C7_LoadedStateValid ==
    pc = "loaded" =>
        /\ "list" \in DOMAIN initialState.players
        /\ "list" \in DOMAIN initialState.history
        /\ "num" \in DOMAIN initialState.roundNumber /\ initialState.roundNumber.num >= 1
        /\ "num" \in DOMAIN initialState.courts /\ initialState.courts.num >= 1
        /\ initialState.playingType \in {[str |-> "single"], [str |-> "double"]}
        /\ "bool" \in DOMAIN initialState.advancedMode
        /\ "json" \notin DOMAIN store => initialState = defaultState

tierRank(skill) ==
    IF skill = "beginner" THEN 0 ELSE IF skill = "intermediate" THEN 1 ELSE 2

\* roster position j sorts before roster position k
sortsBefore(ps, j, k) ==
    \/ ps[j].gamesPlayed < ps[k].gamesPlayed
    \/ /\ ps[j].gamesPlayed = ps[k].gamesPlayed
       /\ tierRank(ps[j].skill) < tierRank(ps[k].skill)
    \/ /\ ps[j].gamesPlayed = ps[k].gamesPlayed
       /\ tierRank(ps[j].skill) = tierRank(ps[k].skill)
       /\ j < k

\* the place (from 1) of the active player at roster position k in that order
sortedPlace(ps, k) ==
    1 + Cardinality({j \in activeIndexes(ps) : sortsBefore(ps, j, k)})

\* the roster of the example: A(0, beginner), B(0, intermediate),
\* C(1, beginner), D(0, pro)
exampleRoster ==
    << [id |-> 1, name |-> <<"A">>, skill |-> "beginner", gamesPlayed |-> 0,
        isOnLeave |-> FALSE],
       [id |-> 2, name |-> <<"B">>, skill |-> "intermediate", gamesPlayed |-> 0,
        isOnLeave |-> FALSE],
       [id |-> 3, name |-> <<"C">>, skill |-> "beginner", gamesPlayed |-> 1,
        isOnLeave |-> FALSE],
       [id |-> 4, name |-> <<"D">>, skill |-> "pro-player", gamesPlayed |-> 0,
        isOnLeave |-> FALSE] >>

exampleHolds ==
    LET ms == matchesOf(exampleRoster, 1, "double", 1, 1000)
    IN  /\ Len(ms) = 1
        /\ ms[1].team1 = <<[ref |-> 1], [ref |-> 2]>>
        /\ ms[1].team2 = <<[ref |-> 4], [ref |-> 3]>>
        /\ [k \in 1..4 |-> exampleRoster[k].gamesPlayed
                              + timesPlaced(exampleRoster[k].id, ms)] = <<1, 1, 2, 1>>

\* C9: the cells of a generated round are, in order, the first count x K
\* active players by gamesPlayed (before the round), then by tier rank, then
\* by roster position; court i has the places (i-1)K+1 .. iK, team1 the
\* first half and team2 the second half; and the example comes out as
\* team1 = [A, B], team2 = [D, C], games 1, 1, 2, 1 for A, B, C, D.
C9_SortedPlacement ==
    [][generated =>
          LET K == IF playingType = "single" THEN 2 ELSE 4
              count == Len(currentMatches')
              cells == allCells(currentMatches')
          IN  /\ Len(cells) = count * K
              /\ count * K <= Cardinality(activeIndexes(players))
              /\ \A k \in activeIndexes(players) :
                     sortedPlace(players, k) <= count * K
                         => cells[sortedPlace(players, k)] = [ref |-> players[k].id]
              /\ \A i \in 1..count :
                     /\ currentMatches'[i].court = i
                     /\ currentMatches'[i].team1
                            = SubSeq(cells, (i - 1) * K + 1, (i - 1) * K + K \div 2)
                     /\ currentMatches'[i].team2
                            = SubSeq(cells, (i - 1) * K + K \div 2 + 1, i * K)
              /\ exampleHolds
      ]_vars

\* two rounds of singles among three players: in the first the tier decided
\* among players without games, against the roster order; in the second the
\* player who had not played came first, against the roster order
C9_Witness ==
    /\ freshRound
    /\ roundNumber = 3
    /\ Len(players) = 3
    /\ Len(history[2].matches) = 1 /\ Len(currentMatches) = 1
    /\ LET first == allCells(history[2].matches)
           second == allCells(currentMatches)
       IN  /\ Len(first) = 2 /\ Len(second) = 2
           /\ \A a \in 1..2 : "ref" \in DOMAIN first[a]
           /\ first[1].ref > first[2].ref
           /\ tierRank(rosterObject(players, first[1].ref).skill)
                  < tierRank(rosterObject(players, first[2].ref).skill)
           /\ second[1].ref > second[2].ref
           /\ rosterObject(players, second[1].ref).gamesPlayed
                  < rosterObject(players, second[2].ref).gamesPlayed

\* C10: the player records in the matches are copies taken when the match
\* was made: a new round shows its players as they were before the round's
\* increment, and, short of a reset, every step leaves the records of the
\* entries already in the history as they were.
C10_MatchesAreSnapshots ==
    [][~wasReset =>
          /\ generated =>
                 viewMatches(players', currentMatches') = viewMatches(players, currentMatches')
          /\ Len(history') >= Len(history)
          /\ viewHistory(players', SubSeq(history', Len(history') - Len(history) + 1,
                                          Len(history')))
                 = viewHistory(players, history)
      ]_vars

====
